---- MODULE Spec2Model ----
(***************************************************************************)
(* scripts/fix-api-params.py: a one-shot migration script.  For each path  *)
(* of a fixed list it reads the file, applies five regular-expression      *)
(* substitutions in order, writes the file back when the text changed and  *)
(* prints one status line; after the loop it prints a blank line and       *)
(* "Done!".                                                                *)
(*                                                                         *)
(* A text is a sequence of one-character strings, and the substitutions    *)
(* are computed character by character as re.sub computes them.  The file  *)
(* system, the console and the open() calls are the state.  Two            *)
(* specifications share the actions: Spec is the script run (and run       *)
(* again) over a file system, RuleSpec is the substitution pipeline on one *)
(* file over a larger set of texts.                                        *)
(***************************************************************************)
EXTENDS Integers, Sequences, FiniteSets, TLC

(***************************************************************************)
(* The fixed path list (lines 5-17) and one path outside it.               *)
(***************************************************************************)
files_to_fix ==
    << "src/app/api/series/[id]/route.ts",
       "src/app/api/warehouses/[id]/route.ts",
       "src/app/api/warehouses/[id]/deactivate/route.ts",
       "src/app/api/warehouses/[id]/activate/route.ts",
       "src/app/api/admin/users/[id]/route.ts",
       "src/app/api/admin/users/[id]/roles/route.ts",
       "src/app/api/admin/users/[id]/roles/[roleId]/route.ts",
       "src/app/api/titles/[id]/stock-threshold/route.ts",
       "src/app/api/audit/users/[id]/route.ts",
       "src/app/api/inventory/[id]/route.ts",
       "src/app/api/inventory/[id]/adjust/route.ts" >>

NumFiles == Len(files_to_fix)

Listed == { files_to_fix[i] : i \in 1..NumFiles }

\* A file of the same tree that the list does not name.
OtherPath == "src/app/api/titles/[id]/route.ts"

Paths == Listed \cup {OtherPath}

(***************************************************************************)
(* Regular expressions.  A pattern is a sequence whose elements are a      *)
(* literal character, WS (whitespace, zero or more, greedy) or NotRParen   *)
(* (the negative lookahead of line 49: the next character is no closing    *)
(* parenthesis).                                                           *)
(***************************************************************************)
WS == "\\s*"

NotRParen == "(?!\\))"

\* The characters the class \s matches that a TLA+ string can hold.
Whitespace == {" ", "\t", "\n", "\r", "\f"}

\* PatA as it would be with single spaces in place of the whitespace runs.
PatA_SingleSpaces ==
    <<"{", " ", "p", "a", "r", "a", "m", "s", " ", "}", ":", " ", "{", " ", "p", "a",
      "r", "a", "m", "s", ":", " ", "{", " ", "i", "d", ":", " ", "s", "t", "r", "i",
      "n", "g", " ", "}", " ", "}" >>

\* line 28
PatA ==
    <<"{", WS, "p", "a", "r", "a", "m", "s", WS, "}", ":", WS, "{", WS, "p", "a", "r",
      "a", "m", "s", ":", WS, "{", WS, "i", "d", ":", WS, "s", "t", "r", "i", "n", "g",
      WS, "}", WS, "}" >>

\* line 29
RepA ==
    <<"{", " ", "p", "a", "r", "a", "m", "s", " ", "}", ":", " ", "{", " ", "p", "a",
      "r", "a", "m", "s", ":", " ", "P", "r", "o", "m", "i", "s", "e", "<", "{", " ",
      "i", "d", ":", " ", "s", "t", "r", "i", "n", "g", " ", "}", ">", " ", "}" >>

\* line 35
PatB ==
    <<"{", WS, "p", "a", "r", "a", "m", "s", WS, "}", ":", WS, "{", WS, "p", "a", "r",
      "a", "m", "s", ":", WS, "{", WS, "i", "d", ":", WS, "s", "t", "r", "i", "n", "g",
      ",", WS, "r", "o", "l", "e", "I", "d", ":", WS, "s", "t", "r", "i", "n", "g", WS,
      "}", WS, "}" >>

\* line 36
RepB ==
    <<"{", " ", "p", "a", "r", "a", "m", "s", " ", "}", ":", " ", "{", " ", "p", "a",
      "r", "a", "m", "s", ":", " ", "P", "r", "o", "m", "i", "s", "e", "<", "{", " ",
      "i", "d", ":", " ", "s", "t", "r", "i", "n", "g", ",", " ", "r", "o", "l", "e",
      "I", "d", ":", " ", "s", "t", "r", "i", "n", "g", " ", "}", ">", " ", "}" >>

\* The text "const id = parseInt(params.id)".
LitC ==
    <<"c", "o", "n", "s", "t", " ", "i", "d", " ", "=", " ", "p", "a", "r", "s", "e",
      "I", "n", "t", "(", "p", "a", "r", "a", "m", "s", ".", "i", "d", ")" >>

\* PatC as it would be with the parentheses left unescaped: they group, and
\* match no character of the text.
PatC_Unescaped ==
    <<"c", "o", "n", "s", "t", " ", "i", "d", " ", "=", " ", "p", "a", "r", "s", "e",
      "I", "n", "t", "p", "a", "r", "a", "m", "s", ".", "i", "d" >>

\* line 42: every character of the pattern is a literal.
PatC == LitC

\* RepC as it would be if its second statement still read params.id.
RepC_Unrenamed ==
    <<"c", "o", "n", "s", "t", " ", "{", " ", "i", "d", ":", " ", "p", "a", "r", "a",
      "m", "I", "d", " ", "}", " ", "=", " ", "a", "w", "a", "i", "t", " ", "p", "a",
      "r", "a", "m", "s", "\n", " ", " ", " ", " ", "c", "o", "n", "s", "t", " ", "i",
      "d", " ", "=", " ", "p", "a", "r", "s", "e", "I", "n", "t", "(", "p", "a", "r",
      "a", "m", "s", ".", "i", "d", ")" >>

\* line 43
RepC ==
    <<"c", "o", "n", "s", "t", " ", "{", " ", "i", "d", ":", " ", "p", "a", "r", "a",
      "m", "I", "d", " ", "}", " ", "=", " ", "a", "w", "a", "i", "t", " ", "p", "a",
      "r", "a", "m", "s", "\n", " ", " ", " ", " ", "c", "o", "n", "s", "t", " ", "i",
      "d", " ", "=", " ", "p", "a", "r", "s", "e", "I", "n", "t", "(", "p", "a", "r",
      "a", "m", "I", "d", ")" >>

\* The text "const id = params.id".
LitD ==
    <<"c", "o", "n", "s", "t", " ", "i", "d", " ", "=", " ", "p", "a", "r", "a", "m",
      "s", ".", "i", "d" >>

\* PatD as it would be without the lookahead.
PatD_NoLookahead == LitD

\* line 49
PatD == LitD \o << NotRParen >>

\* line 50
RepD ==
    <<"c", "o", "n", "s", "t", " ", "{", " ", "i", "d", " ", "}", " ", "=", " ", "a",
      "w", "a", "i", "t", " ", "p", "a", "r", "a", "m", "s" >>

\* The text "const roleId = params.roleId".
LitE ==
    <<"c", "o", "n", "s", "t", " ", "r", "o", "l", "e", "I", "d", " ", "=", " ", "p",
      "a", "r", "a", "m", "s", ".", "r", "o", "l", "e", "I", "d" >>

\* line 56
PatE == LitE

\* line 57
RepE ==
    <<"c", "o", "n", "s", "t", " ", "{", " ", "r", "o", "l", "e", "I", "d", " ", "}",
      " ", "=", " ", "a", "w", "a", "i", "t", " ", "p", "a", "r", "a", "m", "s" >>

(***************************************************************************)
(* re.sub(pattern, repl, string): leftmost non-overlapping matches,        *)
(* scanned left to right, each replaced by repl.  WS is greedy and every   *)
(* WS of these patterns is followed by a character that is no whitespace,  *)
(* so a match never needs to give whitespace back.                         *)
(***************************************************************************)
RECURSIVE SkipSpace(_, _)
SkipSpace(text, pos) ==
    IF pos <= Len(text) /\ text[pos] \in Whitespace
    THEN SkipSpace(text, pos + 1)
    ELSE pos

\* The position after a match of pat[k..] at text[pos..], or 0 when there is none.
RECURSIVE MatchFrom(_, _, _, _)
MatchFrom(pat, k, text, pos) ==
    IF k > Len(pat) THEN pos
    ELSE IF pat[k] = WS THEN MatchFrom(pat, k + 1, text, SkipSpace(text, pos))
    ELSE IF pat[k] = NotRParen
         THEN IF pos <= Len(text) /\ text[pos] = ")"
              THEN 0
              ELSE MatchFrom(pat, k + 1, text, pos)
    ELSE IF pos <= Len(text) /\ text[pos] = pat[k]
         THEN MatchFrom(pat, k + 1, text, pos + 1)
         ELSE 0

\* The positions of text at which pat matches.
MatchStarts(pat, text) == { p \in 1..Len(text) : MatchFrom(pat, 1, text, p) > 0 }

\* The text from pos on, with the leftmost match at or after pos replaced and
\* the scan resumed after that match.
RECURSIVE SubFrom(_, _, _, _)
SubFrom(pat, repl, text, pos) ==
    LET later == { p \in MatchStarts(pat, text) : p >= pos }
    IN  IF later = {}
        THEN SubSeq(text, pos, Len(text))
        ELSE LET m == CHOOSE p \in later : \A q \in later : p <= q
             IN  SubSeq(text, pos, m - 1) \o repl
                     \o SubFrom(pat, repl, text, MatchFrom(pat, 1, text, m))

re_sub(pat, repl, text) == SubFrom(pat, repl, text, 1)

\* lines 27-31, 34-38, 41-45, 48-52, 55-59
SubA(text) == re_sub(PatA, RepA, text)

SubB(text) == re_sub(PatB, RepB, text)

SubC(text) == re_sub(PatC, RepC, text)

SubD(text) == re_sub(PatD, RepD, text)

SubE(text) == re_sub(PatE, RepE, text)

\* lines 26-59: the five substitutions in the order of the script.
Pipeline(text) == SubE(SubD(SubC(SubB(SubA(text)))))

(***************************************************************************)
(* State.                                                                  *)
(***************************************************************************)
VARIABLES
    fs,                 \* the file system: path -> [exists, data]
    run,                \* which invocation of the script this is: 1, then 2
    idx,                \* position of the for loop in files_to_fix (line 19)
    pc,                 \* the statement the script is at
    content,            \* line 22, then lines 27-59
    original_content,   \* line 24
    stdout,             \* stdout[r]: the lines invocation r has printed
    syscalls,           \* syscalls[r]: the open() calls of invocation r
    faults              \* the I/O failures that have happened

vars == << fs, run, idx, pc, content, original_content, stdout, syscalls, faults >>

\* Bounds of the model.
MaxPresent == 2

MaxFaults == 1

MaxFrags == 3

MaxPartial == 1

(***************************************************************************)
(* Text mode.  open(filepath, 'r') reads with universal newlines: "\r\n"   *)
(* and a lone "\r" both become "\n".  open(filepath, 'w') writes "\n" as   *)
(* os.linesep, which is "\n" where the script's #!/usr/bin/env line runs.  *)
(***************************************************************************)
Decode(data) ==
    LET marked == [i \in 1..Len(data) |->
                      IF data[i] # "\r" THEN data[i]
                      ELSE IF i < Len(data) /\ data[i + 1] = "\n" THEN "" ELSE "\n"]
    IN  SelectSeq(marked, LAMBDA c : c # "")

linesep == "\n"

Encode(text) == [i \in 1..Len(text) |-> IF text[i] = "\n" THEN linesep ELSE text[i]]

Absent == [exists |-> FALSE, data |-> << >>]

File(text) == [exists |-> TRUE, data |-> text]

\* filepath as it would be if the last entry of the list named another file.
filepath_Stray == IF idx = NumFiles THEN OtherPath ELSE files_to_fix[idx]

\* line 19: the loop variable.
filepath == files_to_fix[idx]

\* The status lines (lines 64, 66, 69, 71, 73), without their leading glyph.
FixedLine(p) == << "Fixed: ", p >>

NoChangesLine(p) == << "No changes: ", p >>

NotFoundLine(p) == << "Not found: ", p >>

ErrorLine(p, e) == << "Error processing ", p, ": ", e >>

BlankLine == << "" >>

DoneLine == << "Done!" >>

\* What str(e) can be for a failed open(), read() or write().
EACCES == "[Errno 13] Permission denied"

ENOSPC == "[Errno 28] No space left on device"

Emit(line) == [stdout EXCEPT ![run] = Append(@, line)]

Log(op, ok) ==
    [syscalls EXCEPT ![run] = Append(@, [op |-> op, path |-> filepath, ok |-> ok])]

(***************************************************************************)
(* Initial states.  At most MaxPresent of the listed files exist, each     *)
(* holding a text the pipeline changes (TextOld) or one it leaves alone    *)
(* (TextNew), both with a CR LF line end; the file outside the list exists *)
(* and holds TextOld.                                                      *)
(***************************************************************************)
Crlf == << "\r", "\n" >>

TextOld == LitD \o Crlf

TextNew == RepE \o Crlf

RunTexts == {TextOld, TextNew}

Fresh ==
    /\ run = 1
    /\ idx = 1
    /\ pc = "open"
    /\ content = << >>
    /\ original_content = << >>
    /\ stdout = << << >> >>
    /\ syscalls = << << >> >>
    /\ faults = 0

\* The file system in which the listed files S exist and hold the texts d.
Populated(S, d) ==
    [p \in Paths |->
        IF p \in S THEN File(d[p])
        ELSE IF p = OtherPath THEN File(TextOld) ELSE Absent]

\* The paths whose files may exist at the start: the first MaxPresent of the
\* list and the last.
Candidates == { files_to_fix[i] : i \in 1..MaxPresent } \cup { files_to_fix[NumFiles] }

Init ==
    /\ \E S \in SUBSET Candidates :
          /\ Cardinality(S) <= MaxPresent
          /\ \E d \in [S -> RunTexts] : fs = Populated(S, d)
    /\ Fresh

\* The initial states in which the files that exist are among the first
\* MaxPresent paths of the list.
HeadInit ==
    /\ \E S \in SUBSET { files_to_fix[i] : i \in 1..MaxPresent } :
          \E d \in [S -> RunTexts] : fs = Populated(S, d)
    /\ Fresh

(***************************************************************************)
(* Lines 21-24: open and read the file.                                    *)
(***************************************************************************)
ReadOk ==
    /\ pc = "open"
    /\ idx <= NumFiles
    /\ fs[filepath].exists
    /\ content' = Decode(fs[filepath].data)
    /\ original_content' = Decode(fs[filepath].data)
    /\ syscalls' = Log("r", TRUE)
    /\ pc' = "subA"
    /\ UNCHANGED << fs, run, idx, stdout, faults >>

\* ReadNotFound as it would be if the handler left the loop.
ReadNotFound_Abort ==
    /\ pc = "open"
    /\ idx <= NumFiles
    /\ ~ fs[filepath].exists
    /\ syscalls' = Log("r", FALSE)
    /\ stdout' = Emit(NotFoundLine(filepath))
    /\ idx' = NumFiles + 1
    /\ UNCHANGED << fs, run, pc, content, original_content, faults >>

\* lines 21, 68-69
ReadNotFound ==
    /\ pc = "open"
    /\ idx <= NumFiles
    /\ ~ fs[filepath].exists
    /\ syscalls' = Log("r", FALSE)
    /\ stdout' = Emit(NotFoundLine(filepath))
    /\ idx' = idx + 1
    /\ UNCHANGED << fs, run, pc, content, original_content, faults >>

\* ReadError as it would be with no handler for errors other than not-found:
\* the exception ends the script.
ReadError_Uncaught ==
    /\ pc = "open"
    /\ idx <= NumFiles
    /\ fs[filepath].exists
    /\ faults < MaxFaults
    /\ faults' = faults + 1
    /\ syscalls' = Log("r", FALSE)
    /\ pc' = "done"
    /\ UNCHANGED << fs, run, idx, content, original_content, stdout >>

\* lines 21-22, 70-71: the file exists and open() or read() fails.
ReadError ==
    /\ pc = "open"
    /\ idx <= NumFiles
    /\ fs[filepath].exists
    /\ faults < MaxFaults
    /\ faults' = faults + 1
    /\ syscalls' = Log("r", FALSE)
    /\ stdout' = Emit(ErrorLine(filepath, EACCES))
    /\ idx' = idx + 1
    /\ UNCHANGED << fs, run, pc, content, original_content >>

(***************************************************************************)
(* Lines 26-59: the substitutions, one statement each.                     *)
(***************************************************************************)
Step(from, to, text) ==
    /\ pc = from
    /\ content' = text
    /\ pc' = to
    /\ UNCHANGED << fs, run, idx, original_content, stdout, syscalls, faults >>

RuleA == Step("subA", "subB", SubA(content))

RuleB == Step("subB", "subC", SubB(content))

RuleC == Step("subC", "subD", SubC(content))

RuleD == Step("subD", "subE", SubD(content))

RuleE == Step("subE", "compare", SubE(content))

(***************************************************************************)
(* Lines 61-66: write back when the text changed, and report.              *)
(***************************************************************************)
\* WriteFixed as it would be without the comparison of line 61.
WriteFixed_Always ==
    /\ pc = "compare"
    /\ fs' = [fs EXCEPT ![filepath] = File(Encode(content))]
    /\ syscalls' = Log("w", TRUE)
    /\ stdout' = Emit(FixedLine(filepath))
    /\ idx' = idx + 1
    /\ pc' = "open"
    /\ UNCHANGED << run, content, original_content, faults >>

WriteFixed ==
    /\ pc = "compare"
    /\ content # original_content
    /\ fs' = [fs EXCEPT ![filepath] = File(Encode(content))]
    /\ syscalls' = Log("w", TRUE)
    /\ stdout' = Emit(FixedLine(filepath))
    /\ idx' = idx + 1
    /\ pc' = "open"
    /\ UNCHANGED << run, content, original_content, faults >>

\* WriteError as it would be if "Fixed" were printed before the write.
WriteError_FixedFirst ==
    /\ pc = "compare"
    /\ content # original_content
    /\ faults < MaxFaults
    /\ faults' = faults + 1
    /\ fs' = fs
    /\ stdout' = [stdout EXCEPT
                    ![run] = @ \o << FixedLine(filepath), ErrorLine(filepath, EACCES) >>]
    /\ syscalls' = Log("w", FALSE)
    /\ idx' = idx + 1
    /\ pc' = "open"
    /\ UNCHANGED << run, content, original_content >>

\* lines 62-63, 70-71: open(filepath, 'w') fails and the file is untouched, or
\* open() has truncated the file and only the first n characters of the text
\* reach it (n up to MaxPartial here).
WriteError ==
    /\ pc = "compare"
    /\ content # original_content
    /\ faults < MaxFaults
    /\ faults' = faults + 1
    /\ \/ /\ fs' = fs
          /\ stdout' = Emit(ErrorLine(filepath, EACCES))
       \/ /\ \E n \in 0..MaxPartial :
                /\ n < Len(content)
                /\ fs' = [fs EXCEPT ![filepath] = File(SubSeq(Encode(content), 1, n))]
          /\ stdout' = Emit(ErrorLine(filepath, ENOSPC))
    /\ syscalls' = Log("w", FALSE)
    /\ idx' = idx + 1
    /\ pc' = "open"
    /\ UNCHANGED << run, content, original_content >>

NoChanges ==
    /\ pc = "compare"
    /\ content = original_content
    /\ stdout' = Emit(NoChangesLine(filepath))
    /\ idx' = idx + 1
    /\ pc' = "open"
    /\ UNCHANGED << fs, run, content, original_content, syscalls, faults >>

\* Done as it would be with print('Done!'): no blank line.
Done_NoBlank ==
    /\ pc = "open"
    /\ idx > NumFiles
    /\ stdout' = [stdout EXCEPT ![run] = @ \o << DoneLine >>]
    /\ pc' = "done"
    /\ UNCHANGED << fs, run, idx, content, original_content, syscalls, faults >>

\* line 73, after the loop
Done ==
    /\ pc = "open"
    /\ idx > NumFiles
    /\ stdout' = [stdout EXCEPT ![run] = @ \o << BlankLine, DoneLine >>]
    /\ pc' = "done"
    /\ UNCHANGED << fs, run, idx, content, original_content, syscalls, faults >>

\* The script is started a second time, on the file system the first run left.
Rerun ==
    /\ pc = "done"
    /\ run = 1
    /\ run' = run + 1
    /\ idx' = 1
    /\ pc' = "open"
    /\ content' = << >>
    /\ original_content' = << >>
    /\ stdout' = Append(stdout, << >>)
    /\ syscalls' = Append(syscalls, << >>)
    /\ UNCHANGED << fs, faults >>

Script ==
    \/ ReadOk
    \/ ReadNotFound
    \/ ReadError
    \/ RuleA
    \/ RuleB
    \/ RuleC
    \/ RuleD
    \/ RuleE
    \/ WriteFixed
    \/ WriteError
    \/ NoChanges
    \/ Done

Next == Script \/ Rerun

Spec == Init /\ [][Next]_vars

\* A run that is started runs on: nothing in the script waits, so each step of
\* the script is weakly fair.  The runs start from HeadInit.
FairSpec == HeadInit /\ [][Next]_vars /\ WF_vars(Script)

(***************************************************************************)
(* RuleSpec: the script on a file system whose only listed file is the     *)
(* first of the list, holding any text made of at most MaxFrags of the     *)
(* fragments below, followed through that one file.                        *)
(***************************************************************************)
\* "{ params }: { params: { id: string } }"
SigA ==
    <<"{", " ", "p", "a", "r", "a", "m", "s", " ", "}", ":", " ", "{", " ", "p", "a",
      "r", "a", "m", "s", ":", " ", "{", " ", "i", "d", ":", " ", "s", "t", "r", "i",
      "n", "g", " ", "}", " ", "}" >>

\* The same signature, with no whitespace where the pattern allows none and
\* a newline and a tab where it allows some.
SigAws ==
    <<"{", "p", "a", "r", "a", "m", "s", "}", ":", "{", "\n", "\t", "p", "a", "r", "a",
      "m", "s", ":", "{", "i", "d", ":", "s", "t", "r", "i", "n", "g", "}", "}" >>

\* The same signature with a space between the first "}" and its colon.
SigAloose ==
    <<"{", " ", "p", "a", "r", "a", "m", "s", " ", "}", " ", ":", " ", "{", " ", "p",
      "a", "r", "a", "m", "s", ":", " ", "{", " ", "i", "d", ":", " ", "s", "t", "r",
      "i", "n", "g", " ", "}", " ", "}" >>

\* "{ params }: { params: { id: string, roleId: string } }"
SigB ==
    <<"{", " ", "p", "a", "r", "a", "m", "s", " ", "}", ":", " ", "{", " ", "p", "a",
      "r", "a", "m", "s", ":", " ", "{", " ", "i", "d", ":", " ", "s", "t", "r", "i",
      "n", "g", ",", " ", "r", "o", "l", "e", "I", "d", ":", " ", "s", "t", "r", "i",
      "n", "g", " ", "}", " ", "}" >>

RParen == << ")" >>

Frags == {SigA, SigAws, SigAloose, SigB, LitC, LitD, LitE, RParen, Crlf}

RECURSIVE Flatten(_)
Flatten(parts) ==
    IF parts = << >> THEN << >> ELSE Head(parts) \o Flatten(Tail(parts))

PartLists(S) == UNION { [1..n -> S] : n \in 0..MaxFrags }

Texts == { Flatten(parts) : parts \in PartLists(Frags) }

RuleInit ==
    /\ \E t \in Texts :
          fs = [p \in Paths |->
                  IF p = files_to_fix[1] THEN File(t)
                  ELSE IF p = OtherPath THEN File(TextOld) ELSE Absent]
    /\ Fresh

RuleNext ==
    \/ ReadOk
    \/ RuleA
    \/ RuleB
    \/ RuleC
    \/ RuleD
    \/ RuleE
    \/ WriteFixed
    \/ NoChanges

RuleSpec == RuleInit /\ [][RuleNext]_vars

\* The same initial states, with the script run to its end and run again.
TwiceSpec == RuleInit /\ [][Next]_vars

(***************************************************************************)
(* Vocabulary of the properties.                                           *)
(***************************************************************************)
Min(a, b) == IF a < b THEN a ELSE b

\* The status lines of invocation r: one per path the loop has finished.
Status(r) == SubSeq(stdout[r], 1, Min(Len(stdout[r]), NumFiles))

\* Invocation r has run to its end.
Complete(r) == r < run \/ pc = "done"

\* The open() calls of invocation r on path p, for reading or for writing.
Calls(r, p, op) ==
    { k \in 1..Len(syscalls[r]) : syscalls[r][k].path = p /\ syscalls[r][k].op = op }

\* The paths invocation r has opened for reading, in the order of the calls.
ReadPaths(r) ==
    LET reads == SelectSeq(syscalls[r], LAMBDA e : e.op = "r")
    IN  [k \in 1..Len(reads) |-> reads[k].path]

IsPrefix(s, t) == Len(s) <= Len(t) /\ s = SubSeq(t, 1, Len(s))

IsErrorLine(line, p) ==
    Len(line) = 4 /\ line[1] = "Error processing " /\ line[2] = p /\ line[3] = ": "

IsFailureLine(line, p) == line = NotFoundLine(p) \/ IsErrorLine(line, p)

IsStatusLine(line, p) ==
    \/ line = FixedLine(p)
    \/ line = NoChangesLine(p)
    \/ line = NotFoundLine(p)
    \/ IsErrorLine(line, p)

\* How many lines of invocation r equal the given line.
Printed(r, line) == Cardinality({ k \in 1..Len(stdout[r]) : stdout[r][k] = line })

\* Every path of the list has been opened for reading once, in list order.
AllAttempted(r) == ReadPaths(r) = files_to_fix

(***************************************************************************)
(* C1: for every listed path whose file does not exist, exactly one        *)
(* "Not found: <path>" line is printed, nothing is written while the path  *)
(* is processed, and the later paths are still processed in list order.    *)
(***************************************************************************)
C1_MissingFileIsReportedAndSkipped ==
    \A r \in 1..run : \A j \in 1..NumFiles :
        LET p == files_to_fix[j]
        IN  (~ fs[p].exists /\ j <= Len(stdout[r])) =>
                /\ stdout[r][j] = NotFoundLine(p)
                /\ Printed(r, NotFoundLine(p)) = 1
                /\ Calls(r, p, "w") = {}
                /\ Cardinality(Calls(r, p, "r")) = 1
                /\ IsPrefix(ReadPaths(r), files_to_fix)
                /\ Len(ReadPaths(r)) >= Len(Status(r))
                /\ Complete(r) => AllAttempted(r) /\ Len(Status(r)) = NumFiles

\* A finished run in which a missing file was followed by a file that was fixed.
C1_Witness ==
    /\ pc = "done"
    /\ \E j \in 1..NumFiles : \E k \in (j + 1)..NumFiles :
          /\ stdout[run][j] = NotFoundLine(files_to_fix[j])
          /\ stdout[run][k] = FixedLine(files_to_fix[k])

(***************************************************************************)
(* C2: a listed file is overwritten exactly when the text after the five   *)
(* substitutions differs from the text read.  Equal: nothing is written    *)
(* and the line is "No changes".  Different: either the write succeeds,    *)
(* the file holds exactly the final text and the line is "Fixed", or the   *)
(* write fails and the line is an error line.                              *)
(***************************************************************************)
C2_WriteIffChanged ==
    [][ pc = "compare" =>
          LET final == Pipeline(original_content)
              last  == stdout'[run][Len(stdout'[run])]
              call  == syscalls'[run][Len(syscalls'[run])]
          IN  /\ original_content = Decode(fs[filepath].data)
              /\ content = final
              /\ Len(stdout'[run]) = Len(stdout[run]) + 1
              /\ IF final = original_content
                 THEN /\ fs' = fs
                      /\ syscalls' = syscalls
                      /\ last = NoChangesLine(filepath)
                 ELSE /\ Len(syscalls'[run]) = Len(syscalls[run]) + 1
                      /\ call.op = "w"
                      /\ call.path = filepath
                      /\ \/ /\ call.ok
                            /\ fs' = [fs EXCEPT ![filepath] = File(Encode(final))]
                            /\ last = FixedLine(filepath)
                         \/ /\ ~ call.ok
                            /\ IsErrorLine(last, filepath) ]_vars

\* A run that has fixed one file and left another unchanged.
C2_Witness ==
    \E j, k \in 1..Len(Status(run)) :
        /\ stdout[run][j] = FixedLine(files_to_fix[j])
        /\ fs[files_to_fix[j]].data = RepD \o << "\n" >>
        /\ stdout[run][k] = NoChangesLine(files_to_fix[k])
        /\ fs[files_to_fix[k]].data = TextNew

(***************************************************************************)
(* C4: a failure on one path (not found, a read error, a write error)      *)
(* yields that path's failure line and the loop goes on to the next path:  *)
(* every path is attempted exactly once, in list order, whatever happened  *)
(* to the earlier ones.                                                    *)
(***************************************************************************)
C4_ErrorsAreIsolated ==
    \A r \in 1..run :
        /\ IsPrefix(ReadPaths(r), files_to_fix)
        /\ \A j \in 1..Len(Status(r)) :
              IsFailureLine(stdout[r][j], files_to_fix[j]) =>
                  /\ Len(ReadPaths(r)) >= j
                  /\ (r = run /\ pc # "done") => idx > j
                  /\ (j < NumFiles /\ Len(ReadPaths(r)) > j) =>
                        ReadPaths(r)[j + 1] = files_to_fix[j + 1]
        /\ (r = run /\ pc # "done") => Len(Status(r)) = idx - 1
        /\ Complete(r) =>
              /\ AllAttempted(r)
              /\ Len(Status(r)) = NumFiles
              /\ \A j \in 1..NumFiles : IsStatusLine(stdout[r][j], files_to_fix[j])

\* A finished run with a missing file, then an I/O error, then a file that was
\* read and reported.
C4_Witness ==
    /\ pc = "done"
    /\ \E i, j, k \in 1..NumFiles :
          /\ i < j
          /\ j < k
          /\ stdout[run][i] = NotFoundLine(files_to_fix[i])
          /\ IsErrorLine(stdout[run][j], files_to_fix[j])
          /\ stdout[run][k] \in {FixedLine(files_to_fix[k]), NoChangesLine(files_to_fix[k])}

(***************************************************************************)
(* C5: every run terminates, and what it prints is one status line per     *)
(* path, in list order, then one blank line, then "Done!"; "Done!" comes   *)
(* once, after all the status lines, also when paths failed.               *)
(***************************************************************************)
TranscriptShape(r) ==
    IF Complete(r)
    THEN /\ Len(stdout[r]) = NumFiles + 2
         /\ \A j \in 1..NumFiles : IsStatusLine(stdout[r][j], files_to_fix[j])
         /\ stdout[r][NumFiles + 1] = BlankLine
         /\ stdout[r][NumFiles + 2] = DoneLine
    ELSE /\ Len(stdout[r]) = idx - 1
         /\ Len(stdout[r]) <= NumFiles
         /\ \A j \in 1..Len(stdout[r]) : IsStatusLine(stdout[r][j], files_to_fix[j])

C5_TerminatesWithTranscript ==
    /\ (pc # "done") ~> (pc = "done")
    /\ [](\A r \in 1..run : TranscriptShape(r))

\* A finished second run in which every path failed, one of them with an I/O error.
C5_Witness ==
    /\ pc = "done"
    /\ run = 2
    /\ \A j \in 1..NumFiles : IsFailureLine(stdout[run][j], files_to_fix[j])
    /\ \E j \in 1..NumFiles : IsErrorLine(stdout[run][j], files_to_fix[j])
    /\ stdout[run][NumFiles + 2] = DoneLine

(***************************************************************************)
(* C6: the file whose path is not in the list is never opened, for reading *)
(* or for writing, and holds after the runs what it held before them,      *)
(* whatever happened to the listed files.                                  *)
(***************************************************************************)
C6_UnlistedFileUntouched ==
    /\ fs[OtherPath] = File(TextOld)
    /\ \A r \in 1..run : \A k \in 1..Len(syscalls[r]) :
          /\ syscalls[r][k].path # OtherPath
          /\ syscalls[r][k].path \in Listed

\* Both runs are over, a listed file has been rewritten, and the unlisted
\* file still holds a text the pipeline would have changed.
C6_Witness ==
    /\ pc = "done"
    /\ run = 2
    /\ \E j \in 1..NumFiles : stdout[1][j] = FixedLine(files_to_fix[j])
    /\ fs[OtherPath].data = TextOld
    /\ Pipeline(Decode(TextOld)) # Decode(TextOld)

(***************************************************************************)
(* C10: each path gets exactly one outcome; "Fixed" is printed for a path  *)
(* only when its write has succeeded; a failed write gives an error line,  *)
(* never "Fixed" or "No changes"; and no step touches a file other than    *)
(* the one being processed, so nothing written earlier is rolled back or   *)
(* written again.                                                          *)
(***************************************************************************)
OneOutcomeEach(r) ==
    /\ (r = run /\ pc # "done") => Len(Status(r)) = idx - 1
    /\ \A j \in 1..Len(Status(r)) :
          LET p    == files_to_fix[j]
              line == stdout[r][j]
          IN  /\ IsStatusLine(line, p)
              /\ Cardinality(Calls(r, p, "w")) <= 1
              /\ line = FixedLine(p) <=> \E k \in Calls(r, p, "w") : syscalls[r][k].ok
              /\ (\E k \in Calls(r, p, "w") : ~ syscalls[r][k].ok) => IsErrorLine(line, p)

C10_FixedOnlyAfterWrite ==
    [][ /\ \A p \in Paths : (idx > NumFiles \/ p # filepath) => fs'[p] = fs[p]
        /\ \A r \in 1..run' : OneOutcomeEach(r)' ]_vars

\* One file was fixed, the write of a later one failed part-way, and the first
\* still holds what was written to it.
C10_Witness ==
    \E j, k \in 1..Len(Status(run)) :
        /\ j < k
        /\ stdout[run][j] = FixedLine(files_to_fix[j])
        /\ stdout[run][k] = ErrorLine(files_to_fix[k], ENOSPC)
        /\ fs[files_to_fix[j]].data = RepD \o << "\n" >>
        /\ fs[files_to_fix[k]].data # TextOld

(***************************************************************************)
(* Occurrences of a literal text, and their replacement, for the           *)
(* properties of the rules.                                                *)
(***************************************************************************)
\* The positions of text at which the literal lit occurs.
Occ(lit, text) ==
    { p \in 1..(Len(text) - Len(lit) + 1) : SubSeq(text, p, p + Len(lit) - 1) = lit }

Count(lit, text) == Cardinality(Occ(lit, text))

Contains(lit, text) == Occ(lit, text) # {}

\* text with the len characters at each of the positions (which do not
\* overlap) replaced by repl, the rightmost first.
RECURSIVE Splice(_, _, _, _)
Splice(text, positions, len, repl) ==
    IF positions = {} THEN text
    ELSE LET m == CHOOSE p \in positions : \A q \in positions : q <= p
         IN  Splice(SubSeq(text, 1, m - 1) \o repl \o SubSeq(text, m + len, Len(text)),
                    positions \ {m}, len, repl)

FollowedByRParen(text, p, len) == p + len <= Len(text) /\ text[p + len] = ")"

(***************************************************************************)
(* C3, as claimed: after one complete run, a second complete run writes no *)
(* file and reports "No changes" for every file the first run reported     *)
(* "Fixed".                                                                *)
(***************************************************************************)
C3_AsClaimed ==
    run = 2 =>
        /\ \A k \in 1..Len(syscalls[2]) : syscalls[2][k].op # "w"
        /\ \A j \in 1..Len(Status(2)) :
              stdout[1][j] = FixedLine(files_to_fix[j]) =>
                  stdout[2][j] = NoChangesLine(files_to_fix[j])

(***************************************************************************)
(* C3, amended: the pipeline applied to its own output returns it          *)
(* unchanged; so a second run never opens for writing a file the first run *)
(* reported "Fixed", "No changes" or "Not found", and reports "No changes" *)
(* for every file the first run reported "Fixed", unless reading it fails. *)
(* A file whose first run ended in an I/O error may be written by the      *)
(* second.                                                                 *)
(***************************************************************************)
C3_SecondRunIsNoOp ==
    /\ pc = "compare" => Pipeline(content) = content
    /\ run = 2 =>
          \A j \in 1..Len(Status(2)) :
              LET p == files_to_fix[j]
              IN  /\ stdout[1][j] \in {FixedLine(p), NoChangesLine(p), NotFoundLine(p)} =>
                        Calls(2, p, "w") = {}
                  /\ stdout[1][j] = FixedLine(p) =>
                        \/ stdout[2][j] = NoChangesLine(p)
                        \/ /\ IsErrorLine(stdout[2][j], p)
                           /\ \A k \in Calls(2, p, "r") : ~ syscalls[2][k].ok

\* Both runs are over: the first fixed the file, the second read it and left it.
C3_Witness ==
    /\ pc = "done"
    /\ run = 2
    /\ stdout[1][1] = FixedLine(files_to_fix[1])
    /\ stdout[2][1] = NoChangesLine(files_to_fix[1])
    /\ \E k \in Calls(2, files_to_fix[1], "r") : syscalls[2][k].ok
    /\ Calls(2, files_to_fix[1], "w") = {}

(***************************************************************************)
(* Texts for Rule A: some signatures, each replaced by RepA in the         *)
(* expected result, among other fragments, each kept as it is.             *)
(***************************************************************************)
Promised(parts, sigs) ==
    [i \in DOMAIN parts |-> IF parts[i] \in sigs THEN RepA ELSE parts[i]]

\* The pairs << text as read, expected result >> over the files that hold a
\* signature.
SignatureCases(sigs, others) ==
    { << Decode(Flatten(parts)), Decode(Flatten(Promised(parts, sigs))) >> :
        parts \in { q \in PartLists(sigs \cup others) : \E i \in DOMAIN q : q[i] \in sigs } }

\* A single-id signature with any whitespace between its tokens.
AnySpacing == SignatureCases({SigA, SigAws, SigAloose}, {RParen, Crlf})

\* A single-id signature with whitespace only where line 28 has \s*.
PatternSpacing == SignatureCases({SigA, SigAws}, {SigAloose, RParen, Crlf})

\* The first file has been read and Rule A applied to its text; and the file
\* has been processed to the end.
AfterRuleA == idx = 1 /\ pc \in {"subB", "subC", "subD", "subE", "compare"}

FirstFileProcessed == idx = 2 /\ pc = "open"

IsolatedOn(cases) ==
    \A c \in cases :
        c[1] = original_content =>
            /\ AfterRuleA => content = c[2]
            /\ FirstFileProcessed =>
                  /\ content = c[2]
                  /\ fs[files_to_fix[1]].data = Encode(c[2])
                  /\ stdout[1] = << FixedLine(files_to_fix[1]) >>

C8_RuleDLookahead ==
    [][ pc = "subD" =>
          LET rewritten == { p \in Occ(LitD, content) :
                                ~ FollowedByRParen(content, p, Len(LitD)) }
              kept      == Occ(LitD, content) \ rewritten
          IN  /\ content' = Splice(content, rewritten, Len(LitD), RepD)
              /\ Count(LitD, content') = Cardinality(kept)
              /\ \A p \in Occ(LitD, content') :
                    FollowedByRParen(content', p, Len(LitD)) ]_vars

\* After Rule D: one occurrence was rewritten and one, followed by ")", was kept.
C8_Witness ==
    /\ pc = "subE"
    /\ original_content = LitD \o LitD \o RParen
    /\ content = RepD \o LitD \o RParen

(***************************************************************************)
(* C9: the rules run in the order A, B, C, D, E, each on the text the      *)
(* previous one produced; Rule C turns every occurrence of                 *)
(* "const id = parseInt(params.id)" into the two statements of RepC (the   *)
(* second on the next line after four spaces); and Rules D and E match     *)
(* nothing inside the text Rule C produced and leave it in the final text. *)
(***************************************************************************)
Apart(m, mlen, p, plen) == m + mlen <= p \/ p + plen <= m

C9_RuleOrder ==
    [][ /\ pc = "subA" => pc' = "subB" /\ content' = SubA(original_content)
        /\ pc = "subB" => pc' = "subC"
        /\ pc = "subC" =>
              /\ pc' = "subD"
              /\ content' = Splice(content, Occ(LitC, content), Len(LitC), RepC)
              /\ Count(LitC, content') = 0
              /\ Count(RepC, content') = Count(LitC, content) + Count(RepC, content)
        /\ pc = "subD" =>
              /\ pc' = "subE"
              /\ Count(RepC, content') = Count(RepC, content)
              /\ \A m \in MatchStarts(PatD, content) : \A p \in Occ(RepC, content) :
                    Apart(m, Len(LitD), p, Len(RepC))
        /\ pc = "subE" =>
              /\ pc' = "compare"
              /\ Count(RepC, content') = Count(RepC, content)
              /\ \A m \in MatchStarts(PatE, content) : \A p \in Occ(RepC, content) :
                    Apart(m, Len(LitE), p, Len(RepC))
              /\ content' = Pipeline(original_content)
              /\ Count(LitC, content') = 0
              /\ Count(RepC, content') =
                    Count(LitC, original_content) + Count(RepC, original_content) ]_vars

\* The pipeline is over: the parseInt statement has become the two statements
\* of RepC, next to a direct read that Rule D rewrote and a roleId read that
\* Rule E rewrote.
C9_Witness ==
    /\ pc = "compare"
    /\ original_content = LitD \o LitC \o LitE
    /\ content = RepD \o RepC \o RepE

====
